---- MODULE Spec2Model ----
(***************************************************************************)
(* A model of be/src/runtime/runtime_state.cpp (RuntimeState): the         *)
(* per-fragment execution context.  The specifications share the state:    *)
(*   Spec      process status, error log and the poll point, called from   *)
(*             concurrent operator threads;                                *)
(*   SpecLocks the calls of Spec that take a lock, under fair scheduling;  *)
(*   SpecFile  the load-error file export (append_error_msg_to_file);      *)
(*   SpecFileMT  the same export called from several threads at once;      *)
(*   SpecLife  init_mem_trackers, buffer reservations and ~RuntimeState;   *)
(*   SpecCtor  the constructors' resolution of time zone and options.      *)
(***************************************************************************)
EXTENDS Integers, Sequences, FiniteSets, TLC

\* ------------------------------------------------------------------ bounds

\* Total number of RuntimeState calls the operator threads start (Spec).
MaxCalls == 3
\* Number of append_error_msg_to_file calls (SpecFile): 60 rows and a summary.
MaxAppends == 61
\* Number of those calls that are summaries (SpecFile).
MaxSummaries == 1
\* Number of failed attempts to open the error file (SpecFile).
MaxOpenFailures == 1

\* --------------------------------------------------------------- constants

\* runtime_state.cpp:191  _query_options.max_errors = 100
DefaultMaxErrors == 100
\* runtime_state.cpp:347  const int64_t MAX_ERROR_NUM = 50;
MAX_ERROR_NUM == 50
\* runtime_state.cpp:230 and 250  std::numeric_limits<int64_t>::max(), written as
\* the largest integer TLC computes with; every modelled byte count is far below.
kint64max == 2147483647

Threads == {"t1", "t2"}

\* The messages row-processing code logs.
LogMsgs == {"e1", "e2"}
\* const std::string* msg of set_mem_limit_exceeded; NullMsg is msg == nullptr.
NullMsg == "<nullptr>"
LimitMsgs == {NullMsg, "m1", "m2"}
\* failed_allocation_size, DCHECK_GE(.., 0)
AllocSizes == {0, 8}
\* The max_errors values a query option can carry into init.
CfgMaxErrors == {-1, 0, 1, 2}

\* ------------------------------------------------------------------ status

OK == [code |-> "OK", msg |-> ""]
MemoryLimitExceeded(m) == [code |-> "MEM_LIMIT_EXCEEDED", msg |-> m]
InternalError(m) == [code |-> "INTERNAL_ERROR", msg |-> m]

VARIABLES
    \* ---- Spec: process status and error log
    max_errors,            \* _query_options.max_errors after init
    error_log,             \* _error_log
    unreported_error_idx,  \* _unreported_error_idx
    process_status,        \* _process_status
    is_cancelled,          \* _is_cancelled
    process_status_lock,   \* _process_status_lock: "free" or the holder
    error_log_lock,        \* _error_log_lock: "free" or the holder
    over_limit,            \* whether some memory tracker of the instance is over its limit
    pc,                    \* each thread's position
    arg,                   \* each thread's call arguments
    ret,                   \* each thread's last return value
    new_errors,            \* each thread's output vector of get_unreported_errors
    ncalls,                \* calls started so far
    h_first,               \* msg of the first set_mem_limit_exceeded to take the lock
    h_attempts,            \* messages of log_error, in lock order
    h_lastop,              \* last operation on the error log: "none", "log", "poll"
    h_poll,                \* what the last get_unreported_errors saw and gave
    h_check,               \* what the last check_query_state saw and returned
    h_delivered            \* the results of the get_unreported_errors calls, in lock order

logVars == <<max_errors, error_log, unreported_error_idx, process_status, is_cancelled,
             process_status_lock, error_log_lock, over_limit, pc, arg, ret,
             new_errors, ncalls, h_first, h_attempts, h_lastop, h_poll, h_check,
             h_delivered>>

VARIABLES
    \* ---- SpecFile: the load-error file
    query_type,            \* _query_options.query_type
    error_log_file,        \* _error_log_file: "null" or "open"
    error_log_file_path,   \* _error_log_file_path
    file_lines,            \* the lines written to the error file
    num_print_error_rows,  \* _num_print_error_rows
    hub_configured,        \* _load_error_hub_info != nullptr
    error_hub,             \* _error_hub: "null" or "open"
    hub_exported,          \* number of messages handed to _error_hub->export_error
    n_appends,             \* append_error_msg_to_file calls made
    n_summaries,           \* those with is_summary
    n_open_failures,       \* failed create_error_log_file calls
    n_opened,              \* streams create_error_log_file opened and stored
    h_last_summary         \* whether the last call was a summary

fileVars == <<query_type, error_log_file, error_log_file_path, file_lines,
              num_print_error_rows, hub_configured, error_hub, hub_exported,
              n_appends, n_summaries, n_open_failures, n_opened, h_last_summary>>

VARIABLES
    \* ---- SpecLife: memory trackers, buffer reservations, destruction
    query_options,         \* _query_options: mem_limit, buffer_pool_limit, ...
    exec_env,              \* what the ExecEnv provides
    be_test,               \* whether the build defines BE_TEST
    life,                  \* "constructed", "wired", "init_failed", "destroying", "destroyed"
    dtor_pc,               \* the next statement of ~RuntimeState
    block_mgr,             \* _block_mgr2
    resource_pool,         \* _resource_pool in the thread-resource registry
    query_mem_tracker,     \* _query_mem_tracker
    instance_mem_tracker,  \* _instance_mem_tracker
    buffer_reservation,    \* _buffer_reservation, the query-level tracker
    instance_buffer_reservation, \* _instance_buffer_reservation
    initial_reservations,  \* _initial_reservations
    res_limit,             \* reservation limit of each reservation tracker
    reserved,              \* bytes reserved in each reservation tracker
    held,                  \* each operator thread's outstanding reservation
    init_status,           \* what init_mem_trackers returned
    teardown_log           \* the steps ~RuntimeState has performed, in order

lifeVars == <<query_options, exec_env, be_test, life, dtor_pc, block_mgr, resource_pool,
              query_mem_tracker, instance_mem_tracker, buffer_reservation,
              instance_buffer_reservation, initial_reservations, res_limit, reserved,
              held, init_status, teardown_log>>

VARIABLES
    \* ---- SpecCtor: the constructors
    query_globals,         \* the TQueryGlobals handed to the constructor
    constructed,           \* "no", or the constructor path taken
    timezone,              \* _timezone
    timestamp_ms           \* _timestamp_ms

ctorVars == <<query_globals, constructed, timezone, timestamp_ms>>

vars == <<logVars, fileVars, lifeVars, ctorVars>>

FrameLog == UNCHANGED <<fileVars, lifeVars, ctorVars>>
FrameFile == UNCHANGED <<logVars, lifeVars, ctorVars>>

\* ------------------------------------------------------- RuntimeState::init

\* runtime_state.cpp:188-192
init_max_errors(cfg) == IF cfg <= 0 THEN DefaultMaxErrors ELSE cfg

\* ----------------------------------------------------------- pure helpers

NoArg == [msg |-> "", size |-> 0]
NoRet == [op |-> "none", status |-> OK, ok |-> FALSE, text |-> ""]
NoPoll == [idx |-> 0, len |-> 0, out |-> <<>>, immediate |-> FALSE]
NoCheck == [called |-> FALSE, cancelled |-> FALSE, failed |-> FALSE, over |-> FALSE,
            status |-> OK]

\* Mutant: every message is admitted.
log_error_accepts_always(log, maxe) == TRUE

\* Mutant: the admission check off by one.
log_error_accepts_off_by_one(log, maxe) == Len(log) <= maxe

\* runtime_state.cpp:282  _error_log.size() < _query_options.max_errors
log_error_accepts(log, maxe) == Len(log) < maxe

\* Mutant: the status is overwritten without the ok() test (last failure wins).
record_mem_limit_exceeded_last_wins(status, msg) ==
    IF msg # NullMsg
    THEN MemoryLimitExceeded(msg)
    ELSE MemoryLimitExceeded("Memory limit exceeded")

\* runtime_state.cpp:312-320, the assignment under _process_status_lock.
record_mem_limit_exceeded(status, msg) ==
    IF status.code = "OK"
    THEN IF msg # NullMsg
         THEN MemoryLimitExceeded(msg)
         ELSE MemoryLimitExceeded("Memory limit exceeded")
    ELSE status

\* Mutant: every caller takes the branch that records and logs.
observes_ok_always(status) == TRUE

\* runtime_state.cpp:312  if (_process_status.ok()): whether the caller is the one
\* that records the failure and goes on to log it.
observes_ok(status) == status.code = "OK"

\* Mutant: the lock guard lives to the end of the function, so the status lock is
\* still held while the line is logged.
status_lock_after_scope_kept(holder) == holder

\* runtime_state.cpp:310-321: the lock_guard's scope closes before line 323, which
\* leaves _process_status_lock free.
status_lock_after_scope(holder) == "free"

\* runtime_state.cpp:324-330, the line handed to log_error.
mem_limit_log_line(size) ==
    IF size # 0
    THEN "Memory Limit Exceeded\n  <label> could not allocate <size> without exceeding limit.\n"
    ELSE "Memory Limit Exceeded\n"

\* Mutant: the cursor is set one past the end of the log.
get_unreported_cursor_past_end(log, idx, out) ==
    IF idx < Len(log)
    THEN [out |-> SubSeq(log, idx + 1, Len(log)), idx |-> Len(log) + 1]
    ELSE [out |-> out, idx |-> idx]

\* runtime_state.cpp:301-304: what get_unreported_errors leaves in *new_errors
\* and in _unreported_error_idx.
get_unreported(log, idx, out) ==
    IF idx < Len(log)
    THEN [out |-> SubSeq(log, idx + 1, Len(log)), idx |-> Len(log)]
    ELSE [out |-> out, idx |-> idx]

\* boost::algorithm::join(_error_log, "\n"), runtime_state.cpp:276
RECURSIVE join(_)
join(log) ==
    IF log = <<>> THEN ""
    ELSE IF Len(log) = 1 THEN log[1]
    ELSE log[1] \o "\n" \o join(Tail(log))

\* Mutant: the snapshot also marks every entry as reported.
error_log_snapshot_consumes(log, idx) ==
    [text |-> join(log), log |-> log, idx |-> Len(log)]

\* runtime_state.cpp:276: what error_log() returns and what it leaves in
\* _error_log and _unreported_error_idx.
error_log_snapshot(log, idx) ==
    [text |-> join(log), log |-> log, idx |-> idx]

\* RETURN_IF_LIMIT_EXCEEDED (runtime_state.h): whether
\* instance_mem_tracker()->find_limit_exceeded_tracker() finds a tracker.
limit_exceeded(over) == over

\* RuntimeState::query_status() (runtime_state.h): the process status.
query_status(status) == status

Cancelled(m) == [code |-> "CANCELLED", msg |-> m]

\* Mutant: the poll point returns OK whenever no tracker is over its limit.
check_query_state_limit_only(over, status, cancelled, msg) ==
    IF limit_exceeded(over) THEN MemoryLimitExceeded(msg) ELSE OK

\* Mutant: the poll point also checks for cancellation.
check_query_state_checks_cancel(over, status, cancelled, msg) ==
    IF limit_exceeded(over) THEN MemoryLimitExceeded(msg)
    ELSE IF cancelled THEN Cancelled("Cancelled") ELSE query_status(status)

\* runtime_state.cpp:337-345: RETURN_IF_LIMIT_EXCEEDED(this, msg); return query_status();
\* _is_cancelled is not read (the TODO of line 338).
check_query_state(over, status, cancelled, msg) ==
    IF limit_exceeded(over)
    THEN MemoryLimitExceeded(msg)
    ELSE query_status(status)

\* ------------------------------------------------------------ Spec: Init

InitLog ==
    /\ \E cfg \in CfgMaxErrors : max_errors = init_max_errors(cfg)
    /\ error_log = <<>>
    /\ unreported_error_idx = 0
    /\ process_status = OK
    /\ is_cancelled = FALSE
    /\ process_status_lock = "free"
    /\ error_log_lock = "free"
    /\ over_limit = FALSE
    /\ pc = [t \in Threads |-> "idle"]
    /\ arg = [t \in Threads |-> NoArg]
    /\ ret = [t \in Threads |-> NoRet]
    /\ new_errors = [t \in Threads |-> <<>>]
    /\ ncalls = 0
    /\ h_first = "<none>"
    /\ h_attempts = <<>>
    /\ h_lastop = "none"
    /\ h_poll = NoPoll
    /\ h_check = NoCheck
    /\ h_delivered = <<>>

\* The file state after construction: runtime_state.cpp:63-65 (and 84-86).
InitFile ==
    /\ error_log_file = "null"
    /\ error_log_file_path = ""
    /\ file_lines = <<>>
    /\ num_print_error_rows = 0
    /\ error_hub = "null"
    /\ hub_exported = 0
    /\ n_appends = 0
    /\ n_summaries = 0
    /\ n_open_failures = 0
    /\ n_opened = 0
    /\ h_last_summary = FALSE

\* The parts of the state a specification leaves alone.
QuietLog == InitLog /\ max_errors = DefaultMaxErrors
QuietFile == InitFile /\ query_type = "LOAD" /\ hub_configured = FALSE

\* TimezoneUtils::default_time_zone
DefaultTimeZone == "Asia/Shanghai"

QuietCtor ==
    /\ query_globals = [isset_time_zone |-> FALSE, time_zone |-> "", timestamp_ms |-> 0,
                        now_string |-> ""]
    /\ constructed = "init"
    /\ timezone = DefaultTimeZone
    /\ timestamp_ms = 0

\* The members the constructors set that SpecLife works on:
\* runtime_state.cpp:55, 66 and the default member initialisers.
InitTrackers ==
    /\ life = "constructed"
    /\ dtor_pc = 1
    /\ block_mgr = "null"
    /\ query_mem_tracker = "null"
    /\ instance_mem_tracker = "null"
    /\ buffer_reservation = "null"
    /\ initial_reservations = "null"
    /\ res_limit = [query |-> 0, instance |-> 0, mem |-> -1]
    /\ reserved = [root |-> 0, query |-> 0, instance |-> 0]
    /\ held = [t \in Threads |-> 0]
    /\ init_status = OK
    /\ teardown_log = <<>>

QuietLife ==
    /\ InitTrackers
    /\ query_options = [mem_limit_isset |-> FALSE, mem_limit |-> 0,
                        buffer_pool_limit_isset |-> FALSE, buffer_pool_limit |-> 0,
                        initial_reservation_total_claims |-> 0]
    /\ exec_env = [present |-> FALSE, pool_limit |-> -1, root_limit |-> 0]
    /\ be_test = FALSE
    /\ resource_pool = "none"
    /\ instance_buffer_reservation = "unopened"

Init == InitLog /\ QuietFile /\ QuietLife /\ QuietCtor

\* --------------------------------------------------------- Spec: actions

Goto(t, l) == pc' = [pc EXCEPT ![t] = l]
Return(t, r) == /\ Goto(t, "idle")
                /\ ret' = [ret EXCEPT ![t] = r]
                /\ arg' = [arg EXCEPT ![t] = NoArg]

hUnchanged == UNCHANGED <<h_first, h_attempts, h_lastop, h_poll, h_check, h_delivered>>

\* A thread enters a call: the arguments are fixed and the call counted.  A call
\* whose first statement takes a lock enters when it gets the lock: a thread
\* blocked on the lock is a thread that has not entered yet.
Enter(t, l, a) ==
    /\ pc[t] = "idle"
    /\ ncalls < MaxCalls
    /\ ncalls' = ncalls + 1
    /\ Goto(t, l)
    /\ arg' = [arg EXCEPT ![t] = a]

\* bool RuntimeState::log_error(const std::string& error)
call_log_error(t) ==
    /\ \E m \in LogMsgs : Enter(t, "le_cs", [NoArg EXCEPT !.msg = m])
    /\ error_log_lock = "free"
    /\ error_log_lock' = t
    /\ UNCHANGED <<max_errors, error_log, unreported_error_idx, process_status,
                   is_cancelled, process_status_lock, over_limit,
                   ret, new_errors>>
    /\ hUnchanged
    /\ FrameLog

\* void RuntimeState::log_error(const Status& status), runtime_state.cpp:290-296
call_log_error_status(t) ==
    /\ \E st \in {OK, InternalError("e1")} :
          IF st.code = "OK"
          THEN /\ pc[t] = "idle"
               /\ ncalls < MaxCalls
               /\ ncalls' = ncalls + 1
               /\ Return(t, [NoRet EXCEPT !.op = "log_error_status"])
               /\ UNCHANGED error_log_lock
          ELSE /\ Enter(t, "le_cs", [NoArg EXCEPT !.msg = st.msg])
               /\ error_log_lock = "free"
               /\ error_log_lock' = t
               /\ UNCHANGED ret
    /\ UNCHANGED <<max_errors, error_log, unreported_error_idx, process_status,
                   is_cancelled, process_status_lock, over_limit,
                   new_errors>>
    /\ hUnchanged
    /\ FrameLog

\* runtime_state.cpp:332 -> 280: set_mem_limit_exceeded, its status lock released,
\* takes _error_log_lock inside log_error.
lock_error_log(t) ==
    /\ pc[t] = "smle_log_lock"
    /\ error_log_lock = "free"
    /\ error_log_lock' = t
    /\ Goto(t, "smle_log_cs")
    /\ UNCHANGED <<max_errors, error_log, unreported_error_idx, process_status,
                   is_cancelled, process_status_lock, over_limit, arg, ret,
                   new_errors, ncalls>>
    /\ hUnchanged
    /\ FrameLog

\* runtime_state.cpp:282-287 under the lock, then the lock is released.
log_error_body(t) ==
    /\ pc[t] = "le_cs"
    /\ error_log_lock = t
    /\ LET ok == log_error_accepts(error_log, max_errors) IN
          /\ error_log' = IF ok THEN Append(error_log, arg[t].msg) ELSE error_log
          /\ Return(t, [NoRet EXCEPT !.op = "log_error", !.ok = ok])
    /\ error_log_lock' = "free"
    /\ h_attempts' = Append(h_attempts, arg[t].msg)
    /\ h_lastop' = "log"
    /\ UNCHANGED <<max_errors, unreported_error_idx, process_status, is_cancelled,
                   process_status_lock, over_limit, new_errors, ncalls,
                   h_first, h_poll, h_check, h_delivered>>
    /\ FrameLog

\* void RuntimeState::get_unreported_errors(std::vector<std::string>* new_errors):
\* the caller passes a fresh vector or the one its last call filled.
call_get_unreported_errors(t) ==
    /\ \E fresh \in BOOLEAN :
          /\ Enter(t, "gue_cs", NoArg)
          /\ new_errors' = [new_errors EXCEPT ![t] = IF fresh THEN <<>> ELSE @]
    /\ error_log_lock = "free"
    /\ error_log_lock' = t
    /\ UNCHANGED <<max_errors, error_log, unreported_error_idx, process_status,
                   is_cancelled, process_status_lock, over_limit, ret>>
    /\ hUnchanged
    /\ FrameLog

\* runtime_state.cpp:301-304 under the lock, then the lock is released.
get_unreported_errors_body(t) ==
    /\ pc[t] = "gue_cs"
    /\ error_log_lock = t
    /\ LET r == get_unreported(error_log, unreported_error_idx, new_errors[t]) IN
          /\ new_errors' = [new_errors EXCEPT ![t] = r.out]
          /\ unreported_error_idx' = r.idx
          /\ h_poll' = [idx |-> unreported_error_idx, len |-> Len(error_log),
                        out |-> r.out, immediate |-> (h_lastop = "poll")]
          /\ h_delivered' = h_delivered \o r.out
    /\ Return(t, [NoRet EXCEPT !.op = "get_unreported_errors"])
    /\ error_log_lock' = "free"
    /\ h_lastop' = "poll"
    /\ UNCHANGED <<max_errors, error_log, process_status, is_cancelled,
                   process_status_lock, over_limit, ncalls, h_first, h_attempts,
                   h_check>>
    /\ FrameLog

\* std::string RuntimeState::error_log(), runtime_state.cpp:274-275
call_error_log(t) ==
    /\ Enter(t, "el_cs", NoArg)
    /\ error_log_lock = "free"
    /\ error_log_lock' = t
    /\ UNCHANGED <<max_errors, error_log, unreported_error_idx, process_status,
                   is_cancelled, process_status_lock, over_limit, ret, new_errors>>
    /\ hUnchanged
    /\ FrameLog

\* runtime_state.cpp:276 under the lock, then the lock is released.
error_log_body(t) ==
    /\ pc[t] = "el_cs"
    /\ error_log_lock = t
    /\ LET r == error_log_snapshot(error_log, unreported_error_idx) IN
          /\ error_log' = r.log
          /\ unreported_error_idx' = r.idx
          /\ Return(t, [NoRet EXCEPT !.op = "error_log", !.text = r.text])
    /\ error_log_lock' = "free"
    /\ UNCHANGED <<max_errors, process_status, is_cancelled, process_status_lock,
                   over_limit, new_errors, ncalls>>
    /\ hUnchanged
    /\ FrameLog

\* Status RuntimeState::set_mem_limit_exceeded(tracker, failed_allocation_size, msg)
call_set_mem_limit_exceeded(t) ==
    /\ \E m \in LimitMsgs, s \in AllocSizes :
          Enter(t, "smle_cs", [NoArg EXCEPT !.msg = m, !.size = s])
    /\ process_status_lock = "free"
    /\ process_status_lock' = t
    /\ UNCHANGED <<max_errors, error_log, unreported_error_idx, process_status,
                   is_cancelled, error_log_lock, over_limit, ret, new_errors>>
    /\ hUnchanged
    /\ FrameLog

\* runtime_state.cpp:312-321: record the failure or return the recorded one; the
\* scope ends and the lock is released either way.
set_mem_limit_exceeded_body(t) ==
    /\ pc[t] = "smle_cs"
    /\ process_status_lock = t
    /\ process_status' = record_mem_limit_exceeded(process_status, arg[t].msg)
    /\ IF observes_ok(process_status)
       THEN /\ Goto(t, "smle_log_lock")
            /\ UNCHANGED <<ret, arg>>
            /\ process_status_lock' = status_lock_after_scope(t)
       ELSE /\ Return(t, [NoRet EXCEPT !.op = "set_mem_limit_exceeded",
                                       !.status = process_status])
            /\ process_status_lock' = "free"
    /\ h_first' = IF h_first = "<none>" THEN arg[t].msg ELSE h_first
    /\ UNCHANGED <<max_errors, error_log, unreported_error_idx, is_cancelled,
                   error_log_lock, over_limit, new_errors, ncalls,
                   h_attempts, h_lastop, h_poll, h_check, h_delivered>>
    /\ FrameLog

\* runtime_state.cpp:332-334: log_error(ss.str()) under _error_log_lock, then
\* return _process_status.
set_mem_limit_exceeded_log(t) ==
    /\ pc[t] = "smle_log_cs"
    /\ error_log_lock = t
    /\ LET line == mem_limit_log_line(arg[t].size) IN
          /\ error_log' = IF log_error_accepts(error_log, max_errors)
                          THEN Append(error_log, line) ELSE error_log
          /\ h_attempts' = Append(h_attempts, line)
    /\ error_log_lock' = "free"
    /\ h_lastop' = "log"
    /\ Return(t, [NoRet EXCEPT !.op = "set_mem_limit_exceeded",
                               !.status = process_status])
    /\ process_status_lock' = IF process_status_lock = t THEN "free"
                              ELSE process_status_lock
    /\ UNCHANGED <<max_errors, unreported_error_idx, process_status, is_cancelled,
                   over_limit, new_errors, ncalls, h_first, h_poll, h_check,
                   h_delivered>>
    /\ FrameLog

\* Status RuntimeState::check_query_state(const std::string& msg)
do_check_query_state(t) ==
    /\ pc[t] = "idle"
    /\ ncalls < MaxCalls
    /\ ncalls' = ncalls + 1
    /\ LET st == check_query_state(over_limit, process_status, is_cancelled, "poll") IN
          /\ Return(t, [NoRet EXCEPT !.op = "check_query_state", !.status = st])
          /\ h_check' = [called |-> TRUE, cancelled |-> is_cancelled,
                         failed |-> (process_status.code # "OK"),
                         over |-> over_limit, status |-> st]
    /\ UNCHANGED <<max_errors, error_log, unreported_error_idx, process_status,
                   is_cancelled, process_status_lock, error_log_lock, over_limit,
                   new_errors, h_first, h_attempts, h_lastop, h_poll, h_delivered>>
    /\ FrameLog

\* RuntimeState::set_is_cancelled(true): the externally set cancellation flag.
set_is_cancelled ==
    /\ ~is_cancelled
    /\ is_cancelled' = TRUE
    /\ UNCHANGED <<max_errors, error_log, unreported_error_idx, process_status,
                   process_status_lock, error_log_lock, over_limit, pc, arg, ret,
                   new_errors, ncalls>>
    /\ hUnchanged
    /\ FrameLog

\* MemTracker::consume by operator code takes a tracker over its limit, and
\* MemTracker::release brings it back under.
mem_consume ==
    /\ ~over_limit
    /\ over_limit' = TRUE
    /\ UNCHANGED <<max_errors, error_log, unreported_error_idx, process_status,
                   is_cancelled, process_status_lock, error_log_lock, pc, arg, ret,
                   new_errors, ncalls>>
    /\ hUnchanged
    /\ FrameLog

mem_release ==
    /\ over_limit
    /\ over_limit' = FALSE
    /\ UNCHANGED <<max_errors, error_log, unreported_error_idx, process_status,
                   is_cancelled, process_status_lock, error_log_lock, pc, arg, ret,
                   new_errors, ncalls>>
    /\ hUnchanged
    /\ FrameLog

ThreadStep(t) ==
    \/ call_log_error(t)
    \/ call_log_error_status(t)
    \/ lock_error_log(t)
    \/ log_error_body(t)
    \/ call_get_unreported_errors(t)
    \/ get_unreported_errors_body(t)
    \/ call_error_log(t)
    \/ error_log_body(t)
    \/ call_set_mem_limit_exceeded(t)
    \/ set_mem_limit_exceeded_body(t)
    \/ set_mem_limit_exceeded_log(t)
    \/ do_check_query_state(t)

Next ==
    \/ \E t \in Threads : ThreadStep(t)
    \/ set_is_cancelled
    \/ mem_consume
    \/ mem_release

Spec == Init /\ [][Next]_vars

\* ================================================================ SpecFile

QueryTypes == {"SELECT", "LOAD", "EXTERNAL"}
\* const std::string& line, error_msg
SrcLines == {"row"}
ReasonMsgs == {"bad value"}
SummaryMsgs == {"s1", "s2"}

\* Mutant: the workload type is not tested.
is_load_ungated(qt) == TRUE

\* runtime_state.cpp:365  _query_options.query_type != TQueryType::LOAD
is_load(qt) == qt = "LOAD"

\* Mutant: the cap is applied to summary lines too.
suppressed_also_summaries(old, is_summary) == old > MAX_ERROR_NUM

\* Mutant: every line is written, the cap is not applied.
suppressed_never(old, is_summary) == FALSE

\* runtime_state.cpp:384: old is what fetch_add(1) returns, the counter's value
\* before the increment.
suppressed(old, is_summary) == old > MAX_ERROR_NUM /\ ~is_summary

\* runtime_state.cpp:388-396: the formatted line.
format_error_line(line, error_msg, is_summary) ==
    IF is_summary
    THEN [kind |-> "Summary: ", msg |-> error_msg, src |-> ""]
    ELSE [kind |-> "Reason: ", msg |-> error_msg, src |-> line]

\* runtime_state.cpp:406-417, export_load_error: the hub after the call, and
\* whether the message was handed to it.
export_load_error(hub, configured) ==
    IF hub = "null" /\ ~configured
    THEN [hub |-> "null", exported |-> FALSE]
    ELSE [hub |-> "open", exported |-> TRUE]

\* runtime_state.cpp:349-362, create_error_log_file: the path is set, and the
\* stream is open or the call fails.
LoadErrorPath == "error_log/insert_stmt_<label>_<instance>"

\* Mutant: the stream that failed to open is left in _error_log_file.
handle_after_failed_open_kept == "unopened"

\* runtime_state.cpp:371-375: _error_log_file after a failed
\* create_error_log_file: closed, deleted and set to nullptr.
handle_after_failed_open == "null"

InitSpecFile ==
    /\ QuietLog
    /\ QuietLife
    /\ QuietCtor
    /\ InitFile
    /\ query_type \in QueryTypes
    /\ hub_configured \in BOOLEAN

\* void RuntimeState::append_error_msg_to_file(line, error_msg, is_summary),
\* runtime_state.cpp:364-402, by one caller; open_ok is whether the file system
\* lets the error file be opened.
append_error_msg_to_file(line, error_msg, is_summary, open_ok) ==
    /\ n_appends < MaxAppends
    /\ is_summary => n_summaries < MaxSummaries
    /\ n_appends' = n_appends + 1
    /\ n_summaries' = IF is_summary THEN n_summaries + 1 ELSE n_summaries
    /\ h_last_summary' = is_summary
    /\ UNCHANGED <<query_type, hub_configured>>
    /\ IF ~is_load(query_type)
       THEN UNCHANGED <<error_log_file, error_log_file_path, file_lines,
                        num_print_error_rows, error_hub, hub_exported,
                        n_open_failures, n_opened>>
       ELSE IF error_log_file = "null" /\ ~open_ok
       THEN \* create_error_log_file failed: the stream is deleted, the message dropped
            /\ n_open_failures < MaxOpenFailures
            /\ n_open_failures' = n_open_failures + 1
            /\ error_log_file_path' = LoadErrorPath
            /\ error_log_file' = handle_after_failed_open
            /\ UNCHANGED <<file_lines, num_print_error_rows, error_hub, hub_exported,
                           n_opened>>
       ELSE /\ error_log_file' = IF error_log_file = "null" THEN "open"
                                 ELSE error_log_file
            /\ n_opened' = IF error_log_file = "null" THEN n_opened + 1 ELSE n_opened
            /\ error_log_file_path' = IF error_log_file = "null" THEN LoadErrorPath
                                      ELSE error_log_file_path
            /\ num_print_error_rows' = num_print_error_rows + 1
            /\ UNCHANGED n_open_failures
            /\ IF suppressed(num_print_error_rows, is_summary)
               THEN UNCHANGED <<file_lines, error_hub, hub_exported>>
               ELSE LET e == export_load_error(error_hub, hub_configured) IN
                    /\ file_lines' = Append(file_lines,
                                            format_error_line(line, error_msg, is_summary))
                    /\ error_hub' = e.hub
                    /\ hub_exported' = IF e.exported THEN hub_exported + 1
                                       ELSE hub_exported
    /\ FrameFile

append_row ==
    \E line \in SrcLines, m \in ReasonMsgs, open_ok \in BOOLEAN :
        append_error_msg_to_file(line, m, FALSE, open_ok)

append_summary ==
    \E line \in SrcLines, m \in SummaryMsgs, open_ok \in BOOLEAN :
        append_error_msg_to_file(line, m, TRUE, open_ok)

NextFile ==
    \/ append_row
    \/ append_summary

SpecFile == InitSpecFile /\ [][NextFile]_vars

\* ------------------------------------------------------------- SpecFileMT
\* append_error_msg_to_file called from several operator threads.  The function
\* takes no lock; _num_print_error_rows is its only atomic.  Each statement that
\* reads or writes shared state is a step of its own.

FrameMT ==
    UNCHANGED <<max_errors, error_log, unreported_error_idx, process_status,
                is_cancelled, process_status_lock, error_log_lock, over_limit, ret,
                new_errors, h_first, h_attempts, h_lastop, h_poll, h_check,
                h_delivered, lifeVars, ctorVars>>

is_summary_arg(a) == a.msg \in SummaryMsgs

\* runtime_state.cpp:364-367: the call and the workload test.
mt_call(t) ==
    /\ pc[t] = "idle"
    /\ ncalls < MaxCalls
    /\ ncalls' = ncalls + 1
    /\ \E m \in ReasonMsgs \cup SummaryMsgs :
          /\ arg' = [arg EXCEPT ![t] = [NoArg EXCEPT !.msg = m]]
          /\ n_summaries' = IF m \in SummaryMsgs THEN n_summaries + 1 ELSE n_summaries
          /\ h_last_summary' = (m \in SummaryMsgs)
    /\ n_appends' = n_appends + 1
    /\ pc' = [pc EXCEPT ![t] = IF is_load(query_type) THEN "am_check" ELSE "idle"]
    /\ UNCHANGED <<query_type, error_log_file, error_log_file_path, file_lines,
                   num_print_error_rows, hub_configured, error_hub, hub_exported,
                   n_open_failures, n_opened>>
    /\ FrameMT

\* runtime_state.cpp:369  if (_error_log_file == nullptr)
mt_check(t) ==
    /\ pc[t] = "am_check"
    /\ pc' = [pc EXCEPT ![t] = IF error_log_file = "null" THEN "am_open" ELSE "am_count"]
    /\ UNCHANGED <<fileVars, arg, ncalls>>
    /\ FrameMT

\* runtime_state.cpp:350-354, create_error_log_file with a file system that lets
\* the file be opened: _error_log_file = new std::ofstream(...), whatever the
\* pointer held.
mt_open(t) ==
    /\ pc[t] = "am_open"
    /\ error_log_file' = "open"
    /\ error_log_file_path' = LoadErrorPath
    /\ n_opened' = n_opened + 1
    /\ pc' = [pc EXCEPT ![t] = "am_count"]
    /\ UNCHANGED <<query_type, file_lines, num_print_error_rows, hub_configured,
                   error_hub, hub_exported, n_appends, n_summaries, n_open_failures,
                   h_last_summary, arg, ncalls>>
    /\ FrameMT

\* runtime_state.cpp:384-386: the atomic fetch_add and the cap.
mt_count(t) ==
    /\ pc[t] = "am_count"
    /\ num_print_error_rows' = num_print_error_rows + 1
    /\ IF suppressed(num_print_error_rows, is_summary_arg(arg[t]))
       THEN /\ pc' = [pc EXCEPT ![t] = "idle"]
            /\ arg' = [arg EXCEPT ![t] = NoArg]
       ELSE /\ pc' = [pc EXCEPT ![t] = "am_write"]
            /\ UNCHANGED arg
    /\ UNCHANGED <<query_type, error_log_file, error_log_file_path, file_lines,
                   hub_configured, error_hub, hub_exported, n_appends, n_summaries,
                   n_open_failures, n_opened, h_last_summary, ncalls>>
    /\ FrameMT

\* runtime_state.cpp:388-401: format, write to the stream, export.  Two threads
\* writing the same std::ofstream at once is a data race: the line may come out
\* whole or garbled.
mt_write(t) ==
    /\ pc[t] = "am_write"
    /\ \E whole \in (IF \E u \in Threads \ {t} : pc[u] = "am_write"
                      THEN BOOLEAN ELSE {TRUE}) :
          file_lines' = Append(file_lines,
                               IF whole
                               THEN format_error_line("row", arg[t].msg,
                                                      is_summary_arg(arg[t]))
                               ELSE [kind |-> "garbled", msg |-> "", src |-> ""])
    /\ LET e == export_load_error(error_hub, hub_configured) IN
          /\ error_hub' = e.hub
          /\ hub_exported' = IF e.exported THEN hub_exported + 1 ELSE hub_exported
    /\ pc' = [pc EXCEPT ![t] = "idle"]
    /\ arg' = [arg EXCEPT ![t] = NoArg]
    /\ UNCHANGED <<query_type, error_log_file, error_log_file_path,
                   num_print_error_rows, hub_configured, n_appends, n_summaries,
                   n_open_failures, n_opened, h_last_summary, ncalls>>
    /\ FrameMT

NextFileMT ==
    \E t \in Threads :
       \/ mt_call(t)
       \/ mt_check(t)
       \/ mt_open(t)
       \/ mt_count(t)
       \/ mt_write(t)

SpecFileMT == InitSpecFile /\ [][NextFileMT]_vars

\* C17  Serialized error-file access: with several threads in
\* append_error_msg_to_file, the error file is opened at most once, and no two
\* threads are opening or writing the file at the same time.
C17_SerializedFileAccess ==
    /\ n_opened <= 1
    /\ Cardinality({t \in Threads : pc[t] \in {"am_open", "am_write"}}) <= 1

\* -------------------------------------------------------- SpecFile: claims

Reasons(f) == {i \in 1..Len(f) : f[i].kind = "Reason: "}
Summaries(f) == {i \in 1..Len(f) : f[i].kind = "Summary: "}

\* C5  Error-file truncation, as claimed: on a load fragment whose error file
\* opened, after 60 non-summary messages and then one summary the file holds
\* exactly 50 "Reason:" lines followed by the "Summary:" line.
C5_Truncation ==
    (/\ query_type = "LOAD"
     /\ n_open_failures = 0
     /\ n_appends = 61 /\ n_summaries = 1 /\ h_last_summary) =>
        /\ Len(file_lines) = 51
        /\ Reasons(file_lines) = 1..50
        /\ Summaries(file_lines) = {51}

\* C6  Load-only gating: when the workload type is not LOAD, no number of
\* append_error_msg_to_file calls opens or names an error file, moves the
\* printed-row counter, writes a line or reaches the error hub.
C6_LoadOnlyGating ==
    query_type # "LOAD" =>
        /\ error_log_file = "null"
        /\ error_log_file_path = ""
        /\ file_lines = <<>>
        /\ num_print_error_rows = 0
        /\ error_hub = "null"
        /\ hub_exported = 0
        /\ n_open_failures = 0

\* A non-load fragment on which rows and a summary were appended, with a hub
\* configured.
C6_Witness ==
    /\ query_type # "LOAD"
    /\ hub_configured
    /\ n_appends >= 3
    /\ n_summaries = 1

\* An append_error_msg_to_file call.
IsAppend == n_appends' = n_appends + 1
\* One whose create_error_log_file failed.
IsFailedOpen == IsAppend /\ n_open_failures' = n_open_failures + 1

C13_SummaryAlwaysWritten ==
    [][(IsAppend /\ n_summaries' = n_summaries + 1 /\ is_load(query_type)
           /\ error_log_file' = "open") =>
         /\ Len(file_lines') = Len(file_lines) + 1
         /\ SubSeq(file_lines', 1, Len(file_lines)) = file_lines
         /\ file_lines'[Len(file_lines')].kind = "Summary: "
         /\ file_lines'[Len(file_lines')].msg \in SummaryMsgs
         /\ hub_exported' = IF hub_configured THEN hub_exported + 1 ELSE hub_exported
    ]_vars

\* The cap has cut rows off and the file still ends with the summary.
C13_Witness ==
    /\ h_last_summary
    /\ num_print_error_rows > MAX_ERROR_NUM + 2
    /\ Len(file_lines) < n_appends - n_open_failures
    /\ file_lines[Len(file_lines)].kind = "Summary: "
    /\ hub_exported = Len(file_lines)

\* ----------------------------------------------------------- Spec: claims

Min(a, b) == IF a < b THEN a ELSE b

\* C1  First-failure-wins: once a set_mem_limit_exceeded call has run under the
\* status lock, the process status is the memory-limit-exceeded status with the
\* message of the call that took the lock first (the generic message when that
\* call passed none), and every set_mem_limit_exceeded call that has returned,
\* first or later, returned that status.
C1_FirstFailureWins ==
    /\ h_first # "<none>" =>
          process_status = MemoryLimitExceeded(IF h_first = NullMsg
                                               THEN "Memory limit exceeded"
                                               ELSE h_first)
    /\ h_first = "<none>" => process_status = OK
    /\ \A t \in Threads :
          ret[t].op = "set_mem_limit_exceeded" => ret[t].status = process_status

\* Both threads have returned from set_mem_limit_exceeded, one of them having
\* passed "m2" and lost to a call that passed no message.
C1_Witness ==
    /\ \A t \in Threads : ret[t].op = "set_mem_limit_exceeded" /\ pc[t] = "idle"
    /\ h_first = NullMsg
    /\ \E i \in 1..Len(h_attempts) : h_attempts[i] = mem_limit_log_line(8)

\* C2  Error log bound: the log never holds more than max_errors entries, where
\* max_errors is a configured positive value or 100; it is exactly the first
\* max_errors messages handed to log_error in lock order (the line of
\* set_mem_limit_exceeded included), so after M > max_errors calls it holds
\* exactly max_errors entries.
C2_ErrorLogBound ==
    /\ max_errors \in {c \in CfgMaxErrors : c > 0} \cup {100}
    /\ Len(error_log) <= max_errors
    /\ error_log = SubSeq(h_attempts, 1, Min(Len(h_attempts), max_errors))
    /\ Len(h_attempts) > max_errors => Len(error_log) = max_errors

\* More messages were handed to log_error than the log takes, one of them the line
\* of set_mem_limit_exceeded, which was dropped.
C2_Witness ==
    /\ Len(h_attempts) > max_errors
    /\ Len(error_log) = max_errors
    /\ h_attempts[Len(h_attempts)] = mem_limit_log_line(0)

\* C3  Drain-once, as claimed: a get_unreported_errors call that finds entries
\* past the cursor yields exactly those, and a call that follows another one
\* with no log_error in between yields an empty result, whatever container the
\* caller passes.
C3_DrainOnce ==
    h_lastop = "poll" =>
        /\ h_poll.idx < h_poll.len =>
              h_poll.out = SubSeq(error_log, h_poll.idx + 1, h_poll.len)
        /\ h_poll.immediate => h_poll.out = <<>>

\* C8  Failure is sticky: once a failure has been recorded the process status
\* is never OK again, and a check_query_state call made after that returns a
\* non-OK status.
C8_FailureSticky ==
    /\ h_first # "<none>" => process_status.code # "OK"
    /\ (h_check.called /\ h_check.failed) => h_check.status.code # "OK"

\* A check_query_state call made after the failure was recorded, with no tracker
\* over its limit at that moment, returned the recorded status.
C8_Witness ==
    /\ h_check.called /\ h_check.failed /\ ~h_check.over
    /\ h_check.status = process_status
    /\ process_status.code = "MEM_LIMIT_EXCEEDED"

\* C9  as claimed: a check_query_state call made after the cancellation flag was
\* set returns a non-OK status.
C9_CancelPolled ==
    (h_check.called /\ h_check.cancelled) => h_check.status.code # "OK"

\* C9  as amended: check_query_state does not read the cancellation flag; its
\* result is non-OK exactly when a tracker is over its limit or a failure has
\* been recorded in the process status, cancelled or not.
C9_CancelNotPolled ==
    h_check.called =>
        (h_check.status.code # "OK" <=> (h_check.over \/ h_check.failed))

\* A check_query_state call made after cancellation returned OK.
C9_Witness ==
    /\ h_check.called /\ h_check.cancelled
    /\ h_check.status = OK

\* C11  log_error(message) returns true exactly when it appended the message,
\* which is exactly when the log held fewer than max_errors entries when the call
\* had the lock; a call that returns false leaves the log and the unreported
\* cursor as they were; and log_error(status) with an OK status changes nothing.
C11_LogErrorReturn ==
    [][\A t \in Threads :
         /\ (pc[t] = "le_cs" /\ pc'[t] = "idle") =>
               /\ ret'[t].op = "log_error"
               /\ ret'[t].ok = (Len(error_log) < max_errors)
               /\ ret'[t].ok => error_log' = Append(error_log, arg[t].msg)
               /\ ~ret'[t].ok => /\ error_log' = error_log
                                 /\ unreported_error_idx' = unreported_error_idx
         /\ (pc[t] = "idle" /\ pc' = pc /\ ncalls' = ncalls + 1
                /\ ret'[t].op = "log_error_status") =>
               /\ error_log' = error_log
               /\ unreported_error_idx' = unreported_error_idx
               /\ process_status' = process_status
               /\ error_log_lock' = error_log_lock
               /\ new_errors' = new_errors
    ]_vars

\* A log_error call was refused by a full log, and a log_error(OK) call returned.
C11_Witness ==
    \E t, u \in Threads :
       /\ ret[t].op = "log_error" /\ ~ret[t].ok
       /\ Len(error_log) = max_errors
       /\ ret[u].op = "log_error_status"

\* C14  error_log() is a pure snapshot: the call returns the entries of the log
\* joined by newlines and leaves the log and the unreported cursor as they were,
\* so what a later get_unreported_errors returns does not depend on it.
C14_ErrorLogSnapshot ==
    [][\A t \in Threads :
         (pc[t] = "el_cs" /\ pc'[t] = "idle") =>
             /\ ret'[t].op = "error_log"
             /\ Len(error_log) = 0 => ret'[t].text = ""
             /\ Len(error_log) = 1 => ret'[t].text = error_log[1]
             /\ Len(error_log) = 2 =>
                   ret'[t].text = error_log[1] \o "\n" \o error_log[2]
             /\ error_log' = error_log
             /\ unreported_error_idx' = unreported_error_idx
             /\ new_errors' = new_errors
    ]_vars

\* error_log() returned a log of two entries and neither has been reported yet:
\* a get_unreported_errors call would still return both.
C14_Witness ==
    \E t \in Threads :
       /\ ret[t].op = "error_log"
       /\ Len(error_log) = 2
       /\ ret[t].text = error_log[1] \o "\n" \o error_log[2]
       /\ unreported_error_idx = 0

\* C16  Cursor invariant: in every reachable state 0 <= cursor <= length of the
\* error log, and no step decreases the cursor.
C16_CursorInvariant ==
    /\ [](0 <= unreported_error_idx /\ unreported_error_idx <= Len(error_log))
    /\ [][unreported_error_idx' >= unreported_error_idx]_vars

\* The cursor was advanced by a get_unreported_errors call and the log has grown
\* since.
C16_Witness ==
    /\ 0 < unreported_error_idx
    /\ unreported_error_idx < Len(error_log)

IsMemLimitLine(line) == \E size \in AllocSizes : line = mem_limit_log_line(size)

\* C15  Exactly one setter: of all set_mem_limit_exceeded calls, in any
\* interleaving, exactly one observes the status as OK, records the failure and
\* goes on to hand the "Memory Limit Exceeded" line to log_error; every other call
\* returns without logging, so the error log holds at most one such line.
C15_ExactlyOneSetter ==
    LET logging == {t \in Threads : pc[t] \in {"smle_log_lock", "smle_log_cs"}}
        logged == {i \in 1..Len(h_attempts) : IsMemLimitLine(h_attempts[i])}
    IN /\ Cardinality(logging) + Cardinality(logged)
             = IF process_status.code = "OK" THEN 0 ELSE 1
       /\ Cardinality({i \in 1..Len(error_log) : IsMemLimitLine(error_log[i])}) <= 1

\* Both threads have called set_mem_limit_exceeded and returned; the log holds
\* the one line.
C15_Witness ==
    /\ \A t \in Threads : pc[t] = "idle" /\ ret[t].op = "set_mem_limit_exceeded"
    /\ Cardinality({i \in 1..Len(error_log) : IsMemLimitLine(error_log[i])}) = 1
    /\ process_status.code = "MEM_LIMIT_EXCEEDED"

\* The steps a thread takes inside a call: they need no input, only the processor
\* and, for lock_error_log, the lock.
InCall(t) ==
    \/ lock_error_log(t)
    \/ log_error_body(t)
    \/ get_unreported_errors_body(t)
    \/ error_log_body(t)
    \/ set_mem_limit_exceeded_body(t)
    \/ set_mem_limit_exceeded_log(t)

\* The calls that take a lock.
LockedCall(t) ==
    \/ call_log_error(t)
    \/ call_log_error_status(t)
    \/ call_get_unreported_errors(t)
    \/ call_error_log(t)
    \/ call_set_mem_limit_exceeded(t)
    \/ InCall(t)

NextLocks == \E t \in Threads : LockedCall(t)

\* The locking calls alone, under fair scheduling: a thread that can go on inside
\* its call does.
SpecLocks == Init /\ [][NextLocks]_vars /\ \A t \in Threads : WF_vars(InCall(t))

\* C18  Lock discipline: no thread holds the process-status lock and the
\* error-log lock at the same time, a thread that waits for the error-log lock
\* holds no lock, and under fair scheduling every call returns.
C18_LockDiscipline ==
    /\ [](\A t \in Threads :
            /\ ~(process_status_lock = t /\ error_log_lock = t)
            /\ pc[t] \in {"smle_log_lock", "smle_log_cs"} => process_status_lock # t)
    /\ \A t \in Threads : (pc[t] # "idle") ~> (pc[t] = "idle")

\* A set_mem_limit_exceeded call waits for the error-log lock, which the other
\* thread holds, while the status lock is free.
C18_Witness ==
    \E t, u \in Threads :
       /\ pc[t] = "smle_log_lock"
       /\ error_log_lock = u
       /\ u # t
       /\ process_status_lock = "free"

\* C20  Exactly-once, in-order delivery: the results of all get_unreported_errors
\* calls, concatenated in the order the calls held the lock, are the entries of the
\* error log up to the cursor, each once and in order, and when the last operation
\* on the log was such a call they are the whole log.
C20_ExactlyOnceDelivery ==
    /\ h_delivered = SubSeq(error_log, 1, unreported_error_idx)
    /\ h_lastop = "poll" => h_delivered = error_log

\* ================================================================ SpecCtor

Zones == {"", "UTC", "Europe/Paris"}
NowStrings == {"", "1970-01-01 08:00:05", "1970-01-01 08:01:40"}
TimestampsMs == {0, 7, 9000}

\* DateTimeValue::from_date_str followed by DateTimeValue::unix_timestamp(&ts, zone):
\* the seconds since the epoch of a "now" string read in the given zone.
unix_timestamp(now_string, zone) ==
    CASE now_string = "1970-01-01 08:00:05" /\ zone = DefaultTimeZone -> 5
      [] now_string = "1970-01-01 08:01:40" /\ zone = DefaultTimeZone -> 100
      [] OTHER -> 0

\* Mutant: the now-string is looked at before the explicit zone.
init_time_now_first(g) ==
    IF g.now_string # ""
    THEN [timezone |-> DefaultTimeZone,
          timestamp_ms |-> unix_timestamp(g.now_string, DefaultTimeZone) * 1000]
    ELSE IF g.isset_time_zone
    THEN [timezone |-> g.time_zone, timestamp_ms |-> g.timestamp_ms]
    ELSE [timezone |-> DefaultTimeZone, timestamp_ms |-> 0]

\* runtime_state.cpp:166-180, RuntimeState::init
init_time(g) ==
    IF g.isset_time_zone
    THEN [timezone |-> g.time_zone, timestamp_ms |-> g.timestamp_ms]
    ELSE IF g.now_string # ""
    THEN [timezone |-> DefaultTimeZone,
          timestamp_ms |-> unix_timestamp(g.now_string, DefaultTimeZone) * 1000]
    ELSE [timezone |-> DefaultTimeZone, timestamp_ms |-> 0]

\* runtime_state.cpp:99-113, RuntimeState::RuntimeState(const TQueryGlobals&)
globals_ctor_time(g) ==
    IF g.isset_time_zone
    THEN [timezone |-> g.time_zone, timestamp_ms |-> g.timestamp_ms]
    ELSE IF ~(g.now_string = "")
    THEN [timezone |-> DefaultTimeZone,
          timestamp_ms |-> unix_timestamp(g.now_string, DefaultTimeZone) * 1000]
    ELSE [timezone |-> DefaultTimeZone, timestamp_ms |-> 0]

InitSpecCtor ==
    /\ QuietLog
    /\ QuietFile
    /\ QuietLife
    /\ query_globals \in [isset_time_zone : BOOLEAN, time_zone : Zones,
                          timestamp_ms : TimestampsMs, now_string : NowStrings]
    /\ constructed = "no"
    /\ timezone = ""
    /\ timestamp_ms = 0

FrameCtor == UNCHANGED <<logVars, fileVars, lifeVars>>

\* The constructors of runtime_state.cpp:51-90, through init.
construct_with_init ==
    /\ constructed = "no"
    /\ constructed' = "init"
    /\ timezone' = init_time(query_globals).timezone
    /\ timestamp_ms' = init_time(query_globals).timestamp_ms
    /\ UNCHANGED query_globals
    /\ FrameCtor

\* The constructor of runtime_state.cpp:92-115.
construct_globals_only ==
    /\ constructed = "no"
    /\ constructed' = "globals_only"
    /\ timezone' = globals_ctor_time(query_globals).timezone
    /\ timestamp_ms' = globals_ctor_time(query_globals).timestamp_ms
    /\ UNCHANGED query_globals
    /\ FrameCtor

NextCtor ==
    \/ construct_with_init
    \/ construct_globals_only

SpecCtor == InitSpecCtor /\ [][NextCtor]_vars

\* C10  Timezone resolution precedence, on either constructor path: with an
\* explicit zone set in the globals the zone is that zone and the timestamp the
\* supplied timestamp_ms, whatever the now-string; otherwise with a non-empty
\* now-string the zone is the default zone and the timestamp the parsed seconds
\* times 1000; otherwise the default zone and 0.
C10_TimezonePrecedence ==
    constructed # "no" =>
        IF query_globals.isset_time_zone
        THEN /\ timezone = query_globals.time_zone
             /\ timestamp_ms = query_globals.timestamp_ms
        ELSE IF query_globals.now_string # ""
        THEN /\ timezone = DefaultTimeZone
             /\ timestamp_ms
                  = 1000 * unix_timestamp(query_globals.now_string, DefaultTimeZone)
        ELSE /\ timezone = DefaultTimeZone
             /\ timestamp_ms = 0

\* The init path resolved globals that carry both an explicit zone and a
\* now-string: the zone and the supplied timestamp won.
C10_Witness ==
    /\ constructed = "init"
    /\ query_globals.isset_time_zone
    /\ query_globals.now_string = "1970-01-01 08:01:40"
    /\ query_globals.timestamp_ms = 9000
    /\ timezone = "Europe/Paris"
    /\ timestamp_ms = 9000

\* ================================================================ SpecLife

MemLimitOptions == {[isset |-> FALSE, val |-> 4], [isset |-> TRUE, val |-> 0],
                    [isset |-> TRUE, val |-> 4]}
BufferPoolLimitOptions == {[isset |-> FALSE, val |-> 3], [isset |-> TRUE, val |-> 0],
                           [isset |-> TRUE, val |-> 3]}
InitialClaims == {0, 1, 6}
PoolMemLimits == {-1, 3}
RootReservationLimits == {5}
\* The byte counts an operator reserves at a time.
ReserveSizes == {1, 2}

\* MemTracker::lowest_limit(): the smallest limit of the tracker and its
\* ancestors, -1 when none has one.
lowest_limit(own, parent) ==
    IF own = -1 THEN parent
    ELSE IF parent = -1 THEN own
    ELSE IF own < parent THEN own ELSE parent

\* ReservationUtil::GetReservationLimitFromMemLimit(mem_limit): some part of the
\* memory limit.
ReservationLimitsFrom(mem_limit) == 0..mem_limit

\* runtime_state.cpp:211-212: the byte limit of the query memory tracker.
query_bytes_limit(opts) ==
    IF opts.mem_limit_isset /\ opts.mem_limit > 0 THEN opts.mem_limit ELSE -1

\* Mutant: buffer_pool_limit is not consulted.
max_reservation_no_pool_limit(opts, mem_limit, derived) ==
    IF mem_limit = -1 THEN kint64max ELSE derived

\* runtime_state.cpp:243-254, init_buffer_poolstate: max_reservation, where
\* mem_limit is _query_mem_tracker->lowest_limit() and derived is what
\* GetReservationLimitFromMemLimit(mem_limit) returns.
max_reservation(opts, mem_limit, derived) ==
    IF opts.buffer_pool_limit_isset /\ opts.buffer_pool_limit > 0
    THEN opts.buffer_pool_limit
    ELSE IF mem_limit = -1
    THEN kint64max
    ELSE derived

\* ReservationTracker::IncreaseReservation(bytes) on the tracker at the bottom of
\* `chain`: whether every tracker up to the root, and the memory tracker that
\* backs the query-level one, has room.
reservation_fits(chain, bytes, res, lim, root_limit) ==
    /\ \A k \in chain : res[k] + bytes <= (IF k = "root" THEN root_limit ELSE lim[k])
    /\ lim.mem = -1 \/ res.query + bytes <= lim.mem

\* Mutant: the status of InitialReservations::Init is not looked at.
instance_reservation_after_claim_unchecked(claimed, ibr) ==
    IF ibr # "null" THEN "open" ELSE ibr

\* runtime_state.cpp:225-231: _instance_buffer_reservation when init_mem_trackers
\* returns: RETURN_IF_ERROR leaves it as constructed; otherwise InitChildTracker
\* runs if the pointer is set.
instance_reservation_after_claim(claimed, ibr) ==
    IF claimed /\ ibr # "null" THEN "open" ELSE ibr

InitSpecLife ==
    /\ QuietLog
    /\ QuietCtor
    /\ InitFile
    /\ query_type = "LOAD"
    /\ hub_configured \in BOOLEAN
    /\ InitTrackers
    /\ \E ml \in MemLimitOptions, bl \in BufferPoolLimitOptions, c \in InitialClaims :
          query_options = [mem_limit_isset |-> ml.isset, mem_limit |-> ml.val,
                           buffer_pool_limit_isset |-> bl.isset,
                           buffer_pool_limit |-> bl.val,
                           initial_reservation_total_claims |-> c]
    /\ be_test \in BOOLEAN
    /\ \E ctor \in {"init", "globals_only"}, env \in BOOLEAN,
          pl \in PoolMemLimits, rl \in RootReservationLimits :
          \* runtime_state.cpp:66, 87 against 92-97; 186 and 199-202
          /\ instance_buffer_reservation
                = IF ctor = "init" THEN "unopened" ELSE "null"
          /\ exec_env = [present |-> (ctor = "init" /\ env), pool_limit |-> pl,
                         root_limit |-> rl]
          /\ resource_pool = IF ctor = "init" /\ env THEN "registered" ELSE "none"

FrameLife ==
    UNCHANGED <<logVars, ctorVars, query_type, error_log_file_path, file_lines,
                num_print_error_rows, hub_configured, hub_exported, n_appends,
                n_summaries, n_open_failures, n_opened, h_last_summary>>

fileHandles == <<error_log_file, error_hub>>
lifeConfig == <<query_options, exec_env, be_test>>

\* The load path of a running fragment opens the error file and the hub
\* (append_error_msg_to_file, export_load_error).
open_error_file ==
    /\ life \in {"constructed", "wired"}
    /\ error_log_file = "null"
    /\ error_log_file' = "open"
    /\ error_hub' = IF hub_configured THEN "open" ELSE error_hub
    /\ UNCHANGED <<lifeConfig, life, dtor_pc, block_mgr, resource_pool,
                   query_mem_tracker, instance_mem_tracker, buffer_reservation,
                   instance_buffer_reservation, initial_reservations, res_limit,
                   reserved, held, init_status, teardown_log>>
    /\ FrameLife

\* Status RuntimeState::init_mem_trackers(const TUniqueId& query_id),
\* runtime_state.cpp:210-234, with init_buffer_poolstate (241-259).
init_mem_trackers ==
    /\ life = "constructed"
    /\ exec_env.present
    /\ query_mem_tracker' = "open"
    /\ instance_mem_tracker' = "open"
    /\ buffer_reservation' = "open"
    /\ LET bytes_limit == query_bytes_limit(query_options)
           mem_limit == lowest_limit(bytes_limit, exec_env.pool_limit)
           claim == query_options.initial_reservation_total_claims
       IN \E derived \in (IF mem_limit = -1 THEN {0} ELSE ReservationLimitsFrom(mem_limit)) :
          LET lim == [query |-> max_reservation(query_options, mem_limit, derived),
                      instance |-> 0, mem |-> mem_limit]
          IN IF reservation_fits({"query", "root"}, claim, reserved, lim,
                                 exec_env.root_limit)
             THEN \* InitialReservations::Init claimed; line 228-231
                  /\ initial_reservations' = "claimed"
                  /\ reserved' = [reserved EXCEPT !.query = @ + claim, !.root = @ + claim]
                  /\ res_limit' = IF instance_buffer_reservation # "null"
                                  THEN [lim EXCEPT !.instance = kint64max] ELSE lim
                  /\ instance_buffer_reservation'
                        = instance_reservation_after_claim(TRUE,
                                                           instance_buffer_reservation)
                  /\ init_status' = OK
                  /\ life' = "wired"
             ELSE \* RETURN_IF_ERROR, line 225
                  /\ initial_reservations' = "failed"
                  /\ res_limit' = lim
                  /\ init_status' = InternalError("initial reservation")
                  /\ life' = "init_failed"
                  /\ instance_buffer_reservation'
                        = instance_reservation_after_claim(FALSE,
                                                           instance_buffer_reservation)
                  /\ UNCHANGED reserved
    /\ UNCHANGED <<lifeConfig, dtor_pc, block_mgr, resource_pool, held, teardown_log,
                   fileHandles>>
    /\ FrameLife

\* Status RuntimeState::create_block_mgr(), runtime_state.cpp:261-272
create_block_mgr ==
    /\ life = "wired"
    /\ block_mgr = "null"
    /\ block_mgr' = "set"
    /\ UNCHANGED <<lifeConfig, life, dtor_pc, resource_pool, query_mem_tracker,
                   instance_mem_tracker, buffer_reservation,
                   instance_buffer_reservation, initial_reservations, res_limit,
                   reserved, held, init_status, teardown_log, fileHandles>>
    /\ FrameLife

\* An operator reserves on the instance tracker:
\* _instance_buffer_reservation->IncreaseReservation(bytes).
reserve(t) ==
    /\ life = "wired"
    /\ instance_buffer_reservation = "open"
    /\ held[t] = 0
    /\ \E bytes \in ReserveSizes :
          /\ reservation_fits({"instance", "query", "root"}, bytes, reserved, res_limit,
                              exec_env.root_limit)
          /\ reserved' = [k \in DOMAIN reserved |-> reserved[k] + bytes]
          /\ held' = [held EXCEPT ![t] = bytes]
    /\ UNCHANGED <<lifeConfig, life, dtor_pc, block_mgr, resource_pool,
                   query_mem_tracker, instance_mem_tracker, buffer_reservation,
                   instance_buffer_reservation, initial_reservations, res_limit,
                   init_status, teardown_log, fileHandles>>
    /\ FrameLife

\* The reservation is refused: IncreaseReservation returns false and changes nothing.
reserve_refused(t) ==
    /\ life = "wired"
    /\ instance_buffer_reservation = "open"
    /\ held[t] = 0
    /\ \E bytes \in ReserveSizes :
          ~reservation_fits({"instance", "query", "root"}, bytes, reserved, res_limit,
                            exec_env.root_limit)
    /\ UNCHANGED <<lifeVars, fileHandles>>
    /\ FrameLife

\* The operator gives its reservation back: DecreaseReservation(bytes).
release(t) ==
    /\ life = "wired"
    /\ held[t] > 0
    /\ reserved' = [k \in DOMAIN reserved |-> reserved[k] - held[t]]
    /\ held' = [held EXCEPT ![t] = 0]
    /\ UNCHANGED <<lifeConfig, life, dtor_pc, block_mgr, resource_pool,
                   query_mem_tracker, instance_mem_tracker, buffer_reservation,
                   instance_buffer_reservation, initial_reservations, res_limit,
                   init_status, teardown_log, fileHandles>>
    /\ FrameLife

\* ---------------------------------------------- RuntimeState::~RuntimeState

\* Mutant: the memory trackers are closed before the reservations.
dtor_statement_trackers_first(i) ==
    <<"block_mgr", "error_file", "error_hub", "instance_mem_tracker",
      "query_mem_tracker", "instance_buffer_reservation", "initial_reservations",
      "buffer_reservation", "thread_mgr">>[i]

\* runtime_state.cpp:117-160: the statements of the destructor in program order.
dtor_statement(i) ==
    <<"block_mgr", "error_file", "error_hub", "instance_buffer_reservation",
      "initial_reservations", "buffer_reservation", "thread_mgr",
      "instance_mem_tracker", "query_mem_tracker">>[i]

DtorLength == Len(<<"block_mgr", "error_file", "error_hub",
                    "instance_buffer_reservation", "initial_reservations",
                    "buffer_reservation", "thread_mgr", "instance_mem_tracker",
                    "query_mem_tracker">>)

\* The destructor is at statement `name`: it runs once the operators have
\* given back what they reserved (runtime_state.cpp:130), statement by statement.
DtorAt(name) ==
    /\ \/ life = "destroying"
       \/ /\ life \in {"constructed", "wired", "init_failed"}
          /\ \A t \in Threads : held[t] = 0
    /\ dtor_pc <= DtorLength
    /\ dtor_statement(dtor_pc) = name

\* The statement is done; `performed` is whether its condition held.
DtorDone(name, performed) ==
    /\ dtor_pc' = dtor_pc + 1
    /\ life' = IF dtor_pc = DtorLength THEN "destroyed" ELSE "destroying"
    /\ teardown_log' = IF performed THEN Append(teardown_log, name) ELSE teardown_log
    /\ UNCHANGED <<lifeConfig, held, init_status, res_limit>>
    /\ FrameLife

\* runtime_state.cpp:118
dtor_block_mgr ==
    /\ DtorAt("block_mgr")
    /\ block_mgr' = "null"
    /\ DtorDone("block_mgr", TRUE)
    /\ UNCHANGED <<resource_pool, query_mem_tracker, instance_mem_tracker,
                   buffer_reservation, instance_buffer_reservation,
                   initial_reservations, reserved, fileHandles>>

\* runtime_state.cpp:120-124
dtor_error_file ==
    /\ DtorAt("error_file")
    /\ error_log_file' = "null"
    /\ DtorDone("error_file", error_log_file = "open")
    /\ UNCHANGED <<block_mgr, resource_pool, query_mem_tracker, instance_mem_tracker,
                   buffer_reservation, instance_buffer_reservation,
                   initial_reservations, reserved, error_hub>>

\* runtime_state.cpp:126-128
dtor_error_hub ==
    /\ DtorAt("error_hub")
    /\ error_hub' = IF error_hub # "null" THEN "closed" ELSE "null"
    /\ DtorDone("error_hub", error_hub # "null")
    /\ UNCHANGED <<block_mgr, resource_pool, query_mem_tracker, instance_mem_tracker,
                   buffer_reservation, instance_buffer_reservation,
                   initial_reservations, reserved, error_log_file>>

\* runtime_state.cpp:131-133
dtor_instance_buffer_reservation ==
    /\ DtorAt("instance_buffer_reservation")
    /\ instance_buffer_reservation'
          = IF instance_buffer_reservation # "null" THEN "closed" ELSE "null"
    /\ DtorDone("instance_buffer_reservation", instance_buffer_reservation # "null")
    /\ UNCHANGED <<block_mgr, resource_pool, query_mem_tracker, instance_mem_tracker,
                   buffer_reservation, initial_reservations, reserved, fileHandles>>

\* runtime_state.cpp:135-137: ReleaseResources gives the initial claim back.
dtor_initial_reservations ==
    /\ DtorAt("initial_reservations")
    /\ initial_reservations'
          = IF initial_reservations # "null" THEN "released" ELSE "null"
    /\ reserved' = IF initial_reservations = "claimed"
                   THEN [reserved EXCEPT
                           !.query = @ - query_options.initial_reservation_total_claims,
                           !.root = @ - query_options.initial_reservation_total_claims]
                   ELSE reserved
    /\ DtorDone("initial_reservations", initial_reservations # "null")
    /\ UNCHANGED <<block_mgr, resource_pool, query_mem_tracker, instance_mem_tracker,
                   buffer_reservation, instance_buffer_reservation, fileHandles>>

\* runtime_state.cpp:139-141
dtor_buffer_reservation ==
    /\ DtorAt("buffer_reservation")
    /\ buffer_reservation' = IF buffer_reservation # "null" THEN "closed" ELSE "null"
    /\ DtorDone("buffer_reservation", buffer_reservation # "null")
    /\ UNCHANGED <<block_mgr, resource_pool, query_mem_tracker, instance_mem_tracker,
                   instance_buffer_reservation, initial_reservations, reserved,
                   fileHandles>>

\* runtime_state.cpp:143-145
dtor_thread_mgr ==
    /\ DtorAt("thread_mgr")
    /\ resource_pool' = IF exec_env.present THEN "unregistered" ELSE resource_pool
    /\ DtorDone("thread_mgr", exec_env.present)
    /\ UNCHANGED <<block_mgr, query_mem_tracker, instance_mem_tracker,
                   buffer_reservation, instance_buffer_reservation,
                   initial_reservations, reserved, fileHandles>>

\* runtime_state.cpp:147-154, compiled out under BE_TEST
dtor_instance_mem_tracker ==
    /\ DtorAt("instance_mem_tracker")
    /\ instance_mem_tracker'
          = IF ~be_test /\ instance_mem_tracker # "null" THEN "closed"
            ELSE instance_mem_tracker
    /\ DtorDone("instance_mem_tracker", ~be_test /\ instance_mem_tracker # "null")
    /\ UNCHANGED <<block_mgr, resource_pool, query_mem_tracker, buffer_reservation,
                   instance_buffer_reservation, initial_reservations, reserved,
                   fileHandles>>

\* runtime_state.cpp:156-159, compiled out under BE_TEST
dtor_query_mem_tracker ==
    /\ DtorAt("query_mem_tracker")
    /\ query_mem_tracker'
          = IF ~be_test /\ query_mem_tracker # "null" THEN "closed"
            ELSE query_mem_tracker
    /\ DtorDone("query_mem_tracker", ~be_test /\ query_mem_tracker # "null")
    /\ UNCHANGED <<block_mgr, resource_pool, instance_mem_tracker, buffer_reservation,
                   instance_buffer_reservation, initial_reservations, reserved,
                   fileHandles>>

NextLife ==
    \/ open_error_file
    \/ init_mem_trackers
    \/ create_block_mgr
    \/ \E t \in Threads : reserve(t)
    \/ \E t \in Threads : reserve_refused(t)
    \/ \E t \in Threads : release(t)
    \/ dtor_block_mgr
    \/ dtor_error_file
    \/ dtor_error_hub
    \/ dtor_instance_buffer_reservation
    \/ dtor_initial_reservations
    \/ dtor_buffer_reservation
    \/ dtor_thread_mgr
    \/ dtor_instance_mem_tracker
    \/ dtor_query_mem_tracker

SpecLife == InitSpecLife /\ [][NextLife]_vars

\* ------------------------------------------------------- SpecLife: claims

RECURSIVE SumHeld(_)
SumHeld(ts) ==
    IF ts = {} THEN 0
    ELSE LET t == CHOOSE x \in ts : TRUE IN held[t] + SumHeld(ts \ {t})

\* C4: reservation conservation. While the instance buffer reservation tracker is
\* open its own limit is the int64 maximum, what it has outstanding is what the
\* operators hold, and that never exceeds the limit of the query-level tracker above
\* it, which is buffer_pool_limit when that is set and positive, otherwise the int64
\* maximum when no memory limit applies, otherwise a limit derived from the memory
\* limit; and once every operator has released, nothing is outstanding.
C4_ReservationConservation ==
    instance_buffer_reservation = "open" =>
        /\ res_limit.instance = kint64max
        /\ reserved.instance = SumHeld(Threads)
        /\ reserved.instance <= res_limit.query
        /\ IF query_options.buffer_pool_limit_isset /\ query_options.buffer_pool_limit > 0
           THEN res_limit.query = query_options.buffer_pool_limit
           ELSE IF res_limit.mem = -1
           THEN res_limit.query = kint64max
           ELSE res_limit.query \in 0..res_limit.mem
        /\ (\A t \in Threads : held[t] = 0) => reserved.instance = 0

\* Operators hold reservations that together reach the buffer_pool_limit, with a
\* memory limit in force that would have allowed a larger derived limit.
C4_Witness ==
    /\ instance_buffer_reservation = "open"
    /\ life = "wired"
    /\ query_options.buffer_pool_limit_isset
    /\ query_options.buffer_pool_limit > 0
    /\ res_limit.mem > query_options.buffer_pool_limit
    /\ \A t \in Threads : held[t] > 0
    /\ reserved.instance = res_limit.query

\* The place of a destructor step in the stated order; closing the error file and
\* the error hub are one step.
StepRank(name) ==
    CASE name = "block_mgr" -> 1
      [] name = "error_file" -> 2
      [] name = "error_hub" -> 2
      [] name = "instance_buffer_reservation" -> 3
      [] name = "initial_reservations" -> 4
      [] name = "buffer_reservation" -> 5
      [] name = "thread_mgr" -> 6
      [] name = "instance_mem_tracker" -> 7
      [] name = "query_mem_tracker" -> 8

\* C7: teardown order. The steps the destructor has performed so far are in the
\* stated order (block manager; error file and error hub; instance buffer
\* reservation; initial reservations; query-level buffer reservation; thread
\* registry; instance memory tracker; query memory tracker), none twice; no memory
\* tracker is closed while a reservation tracker it backs is open or an initial
\* claim against it is unreleased; and when the destructor has returned nothing it
\* closes is left open.
C7_TeardownOrder ==
    /\ \A i, j \in 1..Len(teardown_log) :
          i < j => /\ StepRank(teardown_log[i]) <= StepRank(teardown_log[j])
                   /\ teardown_log[i] # teardown_log[j]
    /\ instance_mem_tracker = "closed" => instance_buffer_reservation # "open"
    /\ query_mem_tracker = "closed" =>
          /\ buffer_reservation # "open"
          /\ initial_reservations # "claimed"
    /\ life = "destroyed" =>
          /\ block_mgr = "null"
          /\ error_log_file = "null"
          /\ error_hub # "open"
          /\ instance_buffer_reservation # "open"
          /\ initial_reservations # "claimed"
          /\ buffer_reservation # "open"
          /\ resource_pool # "registered"
          /\ be_test \/ (instance_mem_tracker # "open" /\ query_mem_tracker # "open")

\* A fully wired context has been destroyed and every one of the steps was performed.
C7_Witness ==
    /\ life = "destroyed"
    /\ Len(teardown_log) = DtorLength
    /\ query_mem_tracker = "closed"
    /\ buffer_reservation = "closed"
    /\ instance_buffer_reservation = "closed"

\* C19  Initial-claim failure is fatal and not retried: when the initial claim
\* fails, init_mem_trackers returns the error with nothing claimed and the instance
\* buffer reservation not initialised as a child tracker, so no operator ever
\* reserves on it; destruction then still runs every step, and when it calls Close
\* on the never-initialised tracker the query-level reservation and both memory
\* trackers are still open.
C19_InitFailureFatal ==
    init_status.code # "OK" =>
        /\ life \in {"init_failed", "destroying", "destroyed"}
        /\ instance_buffer_reservation # "open"
        /\ \A t \in Threads : held[t] = 0
        /\ reserved = [root |-> 0, query |-> 0, instance |-> 0]
        /\ initial_reservations \in {"failed", "released"}
        /\ life = "init_failed" =>
              /\ instance_buffer_reservation = "unopened"
              /\ buffer_reservation = "open"
              /\ teardown_log = <<>>
        /\ (\A i \in 1..Len(teardown_log) :
                teardown_log[i] # "instance_buffer_reservation") =>
              /\ buffer_reservation = "open"
              /\ query_mem_tracker = "open"
              /\ instance_mem_tracker = "open"
        /\ life = "destroyed" =>
              /\ \A name \in {"block_mgr", "instance_buffer_reservation",
                               "initial_reservations", "buffer_reservation",
                               "thread_mgr"} :
                     \E i \in 1..Len(teardown_log) : teardown_log[i] = name
              /\ ~be_test =>
                     /\ teardown_log[Len(teardown_log)] = "query_mem_tracker"
                     /\ teardown_log[Len(teardown_log) - 1] = "instance_mem_tracker"

\* The initial claim failed and the context was then destroyed.
C19_Witness ==
    /\ init_status.code # "OK"
    /\ life = "destroyed"
    /\ instance_buffer_reservation = "closed"
    /\ query_mem_tracker = "closed"

====
